---------------------------- MODULE Spec2Model ----------------------------
(***************************************************************************)
(* Model of the doorbell integration's hub (doorbell_hub.py): the config   *)
(* resolver _parse_entry, the MQTT subscription made by async_setup, the   *)
(* bell listener fan-out and the gate / lock / ring actions.               *)
(*                                                                         *)
(* Python values are tagged records [t, v, items]:                         *)
(*   t = "undef"  the key is not in the dict                               *)
(*   t = "none"   None                                                     *)
(*   t = "str"    the string v                                             *)
(*   t = "int"    a non-string scalar, v its decimal text                  *)
(*   t = "dict"   a mapping, items its set of <<key, value>> pairs         *)
(* The variables calls, pubs, invoked and raised hold what the most recent *)
(* operation did to the injected collaborators; last names that operation. *)
(*   entry      the ConfigEntry the hub was constructed on                 *)
(*   stage      "constructed", then "ready" once async_setup has returned, *)
(*              or "setup_failed" once it has raised                       *)
(*   config     self.config (NoConfig until async_setup assigns it)        *)
(*   cbs        self._bell_callbacks                                       *)
(*   subs       the mqtt.async_subscribe calls made so far                 *)
(*   n_pressed  the "pressed" messages delivered so far                    *)
(*   n_passes   the runs of _notify_bell so far                            *)
(*   fault      the exception the injected client raised in the most       *)
(*              recent operation ("none" when it accepted the call)        *)
(* The host around the hub (__init__.py, event.py):                        *)
(*   pc           how far async_setup_entry has come                       *)
(*   hub_data     hass.data[DOMAIN]: entry id -> hub (hubs are numbered in *)
(*                the order of their construction)                         *)
(*   entity_added whether the event entity has been added to hass          *)
(*   services     the services registered in the doorbell domain, each     *)
(*                with its handler                                         *)
(*   cmd          the service the most recent operation was called as      *)
(*   fired        the events the event entity fired in that operation      *)
(* Several config entries set up and unloaded (__init__.py, event.py):     *)
(*   epc        how far async_setup_entry / async_unload_entry has come    *)
(*              for each entry                                             *)
(*   made       the number of hubs constructed so far                      *)
(*   hub_local  the local variable hub of each entry's call in progress    *)
(*              (0: none)                                                  *)
(*   entity_hub the hub each entry's event entity holds (0: no entity)     *)
(*   shut       how often async_shutdown was called on each hub            *)
(* The options flow (config_flow.py):                                      *)
(*   registry   the entity registry, in its iteration order                *)
(*   flow       what the most recent async_step_init saw and returned      *)
(* A listener that raises is one that raises an Exception subclass.        *)
(***************************************************************************)
EXTENDS Naturals, Sequences, FiniteSets, TLC

VARIABLES entry, stage, config, cbs, subs, last, calls, pubs, invoked, raised,
          n_pressed, n_passes, fault,
          pc, hub_data, entity_added, services, cmd, fired,
          registry, flow,
          epc, made, hub_local, entity_hub, shut

hubvars == <<entry, stage, config, cbs, subs, last, calls, pubs, invoked,
             raised, n_pressed, n_passes, fault>>

hostvars == <<pc, hub_data, entity_added, services, cmd, fired>>

flowvars == <<registry, flow>>

regvars == <<epc, made, hub_local, entity_hub, shut>>

vars == <<hubvars, hostvars, flowvars, regvars>>

-----------------------------------------------------------------------------
(* Bounds of the model *)

MaxCbs == 3
MaxMsgs == 2
MaxPairs == 2
MaxRegistry == 5
MaxHubs == 3

-----------------------------------------------------------------------------
(* const.py *)

DOMAIN_NAME == "doorbell"
CONF_BASE_TOPIC == "base_topic"
CONF_CLIENT_ID == "client_id"
DEFAULT_BASE_TOPIC == "doorbell"
CONF_DOORBELL_DEVICE_ID == "doorbell_device_id"
CONF_GATE_ENTITY == "gate_entity"
CONF_LOCK_MAP == "lock_map"

Keys == {CONF_BASE_TOPIC, CONF_CLIENT_ID, CONF_DOORBELL_DEVICE_ID,
         CONF_GATE_ENTITY, CONF_LOCK_MAP}

-----------------------------------------------------------------------------
(* Python values *)

Undef == [t |-> "undef", v |-> "", items |-> {}]
None == [t |-> "none", v |-> "", items |-> {}]
S(s) == [t |-> "str", v |-> s, items |-> {}]
I(d) == [t |-> "int", v |-> d, items |-> {}]
Dict(ps) == [t |-> "dict", v |-> "", items |-> ps]

\* bool(x): None, "", 0 and {} are false
Truthy(x) ==
    CASE x.t = "none" -> FALSE
      [] x.t = "str" -> x.v # ""
      [] x.t = "int" -> x.v # "0"
      [] x.t = "dict" -> x.items # {}
      [] OTHER -> FALSE

\* isinstance(x, str)
IsStr(x) == x.t = "str"

\* f"{x}"
Format(x) ==
    CASE x.t = "str" -> x.v
      [] x.t = "none" -> "None"
      [] x.t = "int" -> x.v
      [] OTHER -> "{}"

\* d.get(k, default)
Get(d, k, default) == IF d[k].t = "undef" THEN default ELSE d[k]

-----------------------------------------------------------------------------
(* DoorbellHub._parse_entry *)

\* raw = {**entry.data, **entry.options}
MergeRaw(e) ==
    [k \in Keys |-> IF e.options[k].t # "undef" THEN e.options[k] ELSE e.data[k]]

\* lock_map_raw = raw.get(CONF_LOCK_MAP, {}) or {}
LockMapRaw(raw) ==
    LET got == Get(raw, CONF_LOCK_MAP, Dict({}))
    IN  IF Truthy(got) THEN got ELSE Dict({})

\* lock_map_raw.items() exists only on a mapping
ParseEntryRaises(e) == LockMapRaw(MergeRaw(e)).t # "dict"

\* a filter that tests the key alone
KeepPairKeyOnly(p) == IsStr(p[1])

\* a filter that also drops empty strings
KeepPairNonEmpty(p) ==
    IsStr(p[1]) /\ IsStr(p[2]) /\ p[1].v # "" /\ p[2].v # ""

\* if isinstance(k, str) and isinstance(v, str)
KeepPair(p) == IsStr(p[1]) /\ IsStr(p[2])

\* {k: v for k, v in lock_map_raw.items() if ...}
FilterLockMap(lm) ==
    LET kept == {p \in lm.items : KeepPair(p)}
    IN  [k \in {p[1].v : p \in kept} |->
            (CHOOSE p \in kept : p[1].v = k)[2].v]

BaseTopicOf(raw) == Get(raw, CONF_BASE_TOPIC, S(DEFAULT_BASE_TOPIC))

ParseEntry(e) ==
    LET raw == MergeRaw(e)
    IN  [base_topic |-> BaseTopicOf(raw),
         client_id |-> Get(raw, CONF_CLIENT_ID, None),
         doorbell_device_id |-> Get(raw, CONF_DOORBELL_DEVICE_ID, None),
         gate_entity |-> Get(raw, CONF_GATE_ENTITY, None),
         lock_map |-> FilterLockMap(LockMapRaw(raw))]

\* the hub before async_setup has assigned self.config
NoConfig ==
    [base_topic |-> Undef, client_id |-> Undef, doorbell_device_id |-> Undef,
     gate_entity |-> Undef, lock_map |-> [k \in {} |-> ""]]

HasConfig == config # NoConfig

-----------------------------------------------------------------------------
(* Topics *)

BellTopic(cfg) == Format(cfg.base_topic) \o "/bell"

\* a ring published on the topic the hub listens on
BellCmdTopicIsBell(cfg) == Format(cfg.base_topic) \o "/bell"

BellCmdTopic(cfg) == Format(cfg.base_topic) \o "/bell/cmd"

-----------------------------------------------------------------------------
(* Config entries *)

Entry(d, o) == [data |-> d, options |-> o]

Rec(bt, cid, dev, gate, lm) ==
    [k \in Keys |->
        CASE k = CONF_BASE_TOPIC -> bt
          [] k = CONF_CLIENT_ID -> cid
          [] k = CONF_DOORBELL_DEVICE_ID -> dev
          [] k = CONF_GATE_ENTITY -> gate
          [] k = CONF_LOCK_MAP -> lm]

NoOp == [op |-> "init", arg |-> ""]

HubInit(e) ==
    /\ entry = e
    /\ stage = "constructed"
    /\ config = NoConfig
    /\ cbs = <<>>
    /\ subs = <<>>
    /\ last = NoOp
    /\ calls = <<>>
    /\ pubs = <<>>
    /\ invoked = <<>>
    /\ raised = "none"
    /\ n_pressed = 0
    /\ n_passes = 0
    /\ fault = "none"

-----------------------------------------------------------------------------
(* What one operation did: the calls it made on the injected bus client   *)
(* and service registry, the listeners it invoked, the exception it let   *)
(* escape.                                                                 *)

Did(op, arg, c, p, inv, exc) ==
    /\ last' = [op |-> op, arg |-> arg]
    /\ calls' = c
    /\ pubs' = p
    /\ invoked' = inv
    /\ raised' = exc
    /\ fault' = "none"

\* a hub that swallows the client's exception
EscapedNever(exc) == "none"

\* the hub's methods await the client outside any try: what the client
\* raises leaves the method
Escaped(exc) == exc

\* an operation that called the injected client once: the client accepted
\* (ok) or raised err
DidCall(op, arg, c, p, ok, err) ==
    /\ last' = [op |-> op, arg |-> arg]
    /\ calls' = c
    /\ pubs' = p
    /\ invoked' = <<>>
    /\ fault' = IF ok THEN "none" ELSE err
    /\ raised' = Escaped(IF ok THEN "none" ELSE err)

-----------------------------------------------------------------------------
(* DoorbellHub.async_setup: called once on the hub async_setup_entry has   *)
(* just constructed.                                                       *)

Subscription(cfg) == [topic |-> BellTopic(cfg), qos |-> 1]

Setup ==
    /\ stage = "constructed"
    /\ UNCHANGED <<entry, cbs, n_pressed, n_passes>>
    /\ \/ /\ ParseEntryRaises(entry)
          /\ stage' = "setup_failed"
          /\ UNCHANGED <<config, subs>>
          /\ Did("setup", "", <<>>, <<>>, <<>>, "AttributeError")
       \/ /\ ~ParseEntryRaises(entry)
          /\ config' = ParseEntry(entry)
          /\ subs' = Append(subs, Subscription(ParseEntry(entry)))
          /\ \E ok \in BOOLEAN :
                /\ stage' = IF ok THEN "ready" ELSE "setup_failed"
                /\ DidCall("setup", "", <<>>, <<>>, ok, "HomeAssistantError")

\* a shutdown that drops the listeners
ShutdownClears ==
    /\ stage = "ready"
    /\ cbs' = <<>>
    /\ UNCHANGED <<entry, stage, config, subs, n_pressed, n_passes>>
    /\ Did("shutdown", "", <<>>, <<>>, <<>>, "none")

\* DoorbellHub.async_shutdown
Shutdown ==
    /\ stage = "ready"
    /\ UNCHANGED <<entry, stage, config, cbs, subs, n_pressed, n_passes>>
    /\ Did("shutdown", "", <<>>, <<>>, <<>>, "none")

-----------------------------------------------------------------------------
(* Bell handling *)

\* the listeners of the model: cb_ok returns, cb_raise raises an Exception,
\* cb_reg registers cb_ok on the hub and returns
Callbacks == {"cb_ok", "cb_raise", "cb_reg"}

\* DoorbellEventEntity declares its description as _attr_description and no
\* _attr_event_types: the entity has no event type
EventTypes == {}

\* the one positional argument of the _trigger_event call
TimestampPayload == Dict({<<S("timestamp"), S("utcnow")>>})

\* EventEntity._trigger_event(event_type, event_attributes = None) of Home
\* Assistant, the base class method the listener calls: an event of a
\* declared type is fired, any other first argument is refused
TriggerEvent(event_type, event_attributes, event_types) ==
    IF event_type \in event_types
    THEN [fired |-> <<[event_type |-> event_type,
                       attributes |-> event_attributes]>>,
          exc |-> "none"]
    ELSE [fired |-> <<>>, exc |-> "ValueError"]

\* DoorbellEventEntity.async_added_to_hass._bell_pressed
BellPressed == TriggerEvent(TimestampPayload, None, EventTypes)

\* what cb() does to the listener list, and the exception it raises
Invoke(cb, list) ==
    CASE cb = "cb_raise" -> [cbs |-> list, exc |-> "RuntimeError"]
      [] cb = "_bell_pressed" -> [cbs |-> list, exc |-> BellPressed.exc]
      [] cb = "cb_reg" -> [cbs |-> Append(list, "cb_ok"), exc |-> "none"]
      [] OTHER -> [cbs |-> list, exc |-> "none"]

\* a loop without the try / except
CaughtNever(exc) == FALSE

\* except Exception: continue
Caught(exc) == TRUE

\* a loop over the live list
IteratedLive(snapshot, live) == live

\* for cb in list(self._bell_callbacks): the loop runs over the copy
Iterated(snapshot, live) == snapshot

RECURSIVE RunPass(_, _, _)
RunPass(snapshot, i, st) ==
    IF i > Len(Iterated(snapshot, st.cbs)) \/ st.escaped # "none"
    THEN st
    ELSE LET cb == Iterated(snapshot, st.cbs)[i]
             r == Invoke(cb, st.cbs)
         IN  RunPass(snapshot, i + 1,
                     [cbs |-> r.cbs,
                      invoked |-> Append(st.invoked, cb),
                      escaped |-> IF r.exc # "none" /\ ~Caught(r.exc)
                                  THEN r.exc ELSE "none"])

\* DoorbellHub._notify_bell
NotifyBell(list) ==
    RunPass(list, 1, [cbs |-> list, invoked |-> <<>>, escaped |-> "none"])

\* a registration at the front of the list
RegisterBellCallbackFront(cb) ==
    /\ stage = "ready"
    /\ Len(cbs) < MaxCbs
    /\ cbs' = <<cb>> \o cbs
    /\ UNCHANGED <<entry, stage, config, subs, n_pressed, n_passes>>
    /\ Did("register", cb, <<>>, <<>>, <<>>, "none")

\* DoorbellHub.register_bell_callback
RegisterBellCallback(cb) ==
    /\ stage = "ready"
    /\ Len(cbs) < MaxCbs
    /\ cbs' = Append(cbs, cb)
    /\ UNCHANGED <<entry, stage, config, subs, n_pressed, n_passes>>
    /\ Did("register", cb, <<>>, <<>>, <<>>, "none")

Payloads == {"pressed", "released", "", "Pressed"}

\* a comparison that ignores case
IsPressedAnyCase(payload) == payload \in {"pressed", "Pressed"}

\* if msg.payload == "pressed"
IsPressed(payload) == payload = "pressed"

\* async_setup._message_received, run by the bus for a message on the
\* subscribed topic
MessageReceived(payload) ==
    /\ stage = "ready"
    /\ UNCHANGED <<entry, stage, config, subs>>
    /\ IF IsPressed(payload)
       THEN LET r == NotifyBell(cbs)
            IN  /\ n_passes < MaxMsgs
                /\ cbs' = r.cbs
                /\ n_passes' = n_passes + 1
                /\ Did("message", payload, <<>>, <<>>, r.invoked, r.escaped)
       ELSE /\ UNCHANGED <<cbs, n_passes>>
            /\ Did("message", payload, <<>>, <<>>, <<>>, "none")
    /\ n_pressed' = IF payload = "pressed" THEN n_pressed + 1 ELSE n_pressed

-----------------------------------------------------------------------------
(* Actions / services.  The hub's methods are reached through the services *)
(* and entities async_setup_entry sets up after async_setup has returned.  *)
(* ok is the injected client's answer: it accepts the call or raises.      *)

\* DoorbellHub.async_ring
Publish(cfg) ==
    [topic |-> BellCmdTopic(cfg), payload |-> "ring", qos |-> 1,
     retain |-> FALSE]

Ring ==
    /\ stage = "ready"
    /\ UNCHANGED <<entry, stage, config, cbs, subs, n_pressed, n_passes>>
    /\ \E ok \in BOOLEAN :
          DidCall("ring", "", <<>>, <<Publish(config)>>, ok,
                  "HomeAssistantError")

ServiceCall(domain, service, target) ==
    [domain |-> domain, service |-> service, entity_id |-> target,
     blocking |-> FALSE]

\* a guard that tests for None alone
GateConfiguredNotNone(cfg) == cfg.gate_entity # None

\* if not self.config.gate_entity: return
GateConfigured(cfg) == Truthy(cfg.gate_entity)

OpenGateCall(cfg) == ServiceCall("cover", "open_cover", cfg.gate_entity)
CloseGateCall(cfg) == ServiceCall("cover", "close_cover", cfg.gate_entity)
StopGateCall(cfg) == ServiceCall("cover", "stop_cover", cfg.gate_entity)

GateAction(op, call) ==
    /\ stage = "ready"
    /\ UNCHANGED <<entry, stage, config, cbs, subs, n_pressed, n_passes>>
    /\ IF ~GateConfigured(config)
       THEN Did(op, "", <<>>, <<>>, <<>>, "none")
       ELSE \E ok \in BOOLEAN :
               DidCall(op, "", <<call>>, <<>>, ok, "ServiceNotFound")

\* DoorbellHub.async_open_gate
OpenGate == GateAction("open_gate", OpenGateCall(config))

\* DoorbellHub.async_close_gate
CloseGate == GateAction("close_gate", CloseGateCall(config))

\* DoorbellHub.async_stop_gate
StopGate == GateAction("stop_gate", StopGateCall(config))

\* real = self.config.lock_map.get(remote_entity_id)
LockMapGet(cfg, remote_entity_id) ==
    IF remote_entity_id \in DOMAIN cfg.lock_map
    THEN S(cfg.lock_map[remote_entity_id])
    ELSE None

LockServiceCall(real) == ServiceCall("lock", "lock", real)

\* an unlock that calls the lock service
UnlockServiceCallLocks(real) == ServiceCall("lock", "lock", real)

UnlockServiceCall(real) == ServiceCall("lock", "unlock", real)

RemoteAction(op, remote_entity_id, call) ==
    /\ stage = "ready"
    /\ UNCHANGED <<entry, stage, config, cbs, subs, n_pressed, n_passes>>
    /\ IF ~Truthy(LockMapGet(config, remote_entity_id))
       THEN Did(op, remote_entity_id, <<>>, <<>>, <<>>, "none")
       ELSE \E ok \in BOOLEAN :
               DidCall(op, remote_entity_id, <<call>>, <<>>, ok,
                       "ServiceNotFound")

\* DoorbellHub.async_lock_for_remote
LockForRemote(remote_entity_id) ==
    RemoteAction("lock_for_remote", remote_entity_id,
                 LockServiceCall(LockMapGet(config, remote_entity_id)))

\* DoorbellHub.async_unlock_for_remote
UnlockForRemote(remote_entity_id) ==
    RemoteAction("unlock_for_remote", remote_entity_id,
                 UnlockServiceCall(LockMapGet(config, remote_entity_id)))

\* the remote ids the callers pass
RemoteIds == {"lock.doorbell_front", "lock.doorbell_back",
              "Lock.Doorbell_Front", "lock.doorbell", ""}

-----------------------------------------------------------------------------
(* The config entries the hub is constructed on.  entry.data is what the   *)
(* user step or the import step stored, entry.options what the options     *)
(* flow or the entry store holds.                                          *)

NoLockMapRec(bt, gate) == Rec(bt, S("doorbell"), S("dev1"), gate, Undef)

HubData ==
    { NoLockMapRec(S("home"), S("cover.gate")),
      NoLockMapRec(S("home"), None),
      Rec(Undef, Undef, Undef, Undef, S("abc")) }

HubOptions ==
    { Rec(Undef, Undef, Undef, Undef, Undef),
      Rec(Undef, Undef, Undef, Undef,
          Dict({<<S("lock.doorbell_front"), S("lock.real_front")>>})),
      Rec(S(""), Undef, Undef, S(""),
          Dict({<<S("lock.doorbell_front"), S("")>>,
                <<S("lock.doorbell_back"), S("lock.real_back")>>,
                <<S(""), S("lock.real_side")>>})),
      Rec(None, Undef, Undef, I("0"), None) }

\* nothing of the host has run, no options flow has been opened
HostInit ==
    /\ pc = "start"
    /\ hub_data = [e \in {} |-> 0]
    /\ entity_added = FALSE
    /\ services = [n \in {} |-> ""]
    /\ cmd = ""
    /\ fired = <<>>

\* the config entries of the model
ConfigEntries == {"entry1", "entry2"}

\* no entry is being set up, no hub has been constructed
RegInit ==
    /\ epc = [e \in ConfigEntries |-> "idle"]
    /\ made = 0
    /\ hub_local = [e \in ConfigEntries |-> 0]
    /\ entity_hub = [e \in ConfigEntries |-> 0]
    /\ shut = [h \in 1..MaxHubs |-> 0]

\* user_input is None
NoInput ==
    [given |-> FALSE, base |-> Rec(Undef, Undef, Undef, Undef, Undef),
     fields |-> {}]

NoFlow ==
    [step |-> "none", device_id |-> None, remote_locks |-> <<>>,
     existing_lock_map |-> {}, user_input |-> NoInput]

FlowInit ==
    /\ registry = <<>>
    /\ flow = NoFlow

Init ==
    /\ \E d \in HubData, o \in HubOptions : HubInit(Entry(d, o))
    /\ HostInit
    /\ FlowInit
    /\ RegInit

\* a method of the hub called directly
HubStep(A) == A /\ UNCHANGED <<hostvars, flowvars, regvars>>

Next ==
    \/ HubStep(Setup)
    \/ HubStep(Shutdown)
    \/ \E cb \in Callbacks : HubStep(RegisterBellCallback(cb))
    \/ \E payload \in Payloads : HubStep(MessageReceived(payload))
    \/ HubStep(Ring)
    \/ HubStep(OpenGate)
    \/ HubStep(CloseGate)
    \/ HubStep(StopGate)
    \/ \E r \in RemoteIds : HubStep(LockForRemote(r))
    \/ \E r \in RemoteIds : HubStep(UnlockForRemote(r))

Spec == Init /\ [][Next]_vars

-----------------------------------------------------------------------------
(* The config entry: __init__.py and event.py.  async_setup_entry runs     *)
(* from await to await; bus messages and service calls come in between.    *)

EntryId == "entry1"

\* data[entry_id] = hub
Stored(data, entry_id, hub) ==
    [x \in DOMAIN data \cup {entry_id} |->
        IF x = entry_id THEN hub ELSE data[x]]

\* await hub.async_setup() returned: go on, unless it raised
AfterSetupAlways(exc) == "hub_setup"

AfterSetup(exc) == IF exc = "none" THEN "hub_setup" ELSE "failed"

\* async_setup_entry: hub = DoorbellHub(...); await hub.async_setup()
SetupEntryHub ==
    /\ pc = "start"
    /\ Setup
    /\ pc' = AfterSetup(raised')
    /\ cmd' = ""
    /\ fired' = <<>>
    /\ made' = made + 1
    /\ UNCHANGED <<hub_data, entity_added, services, flowvars>>
    /\ UNCHANGED <<epc, hub_local, entity_hub, shut>>

\* async_setup_entry: hass.data[DOMAIN][entry.entry_id] = hub
StoreHub ==
    /\ pc = "hub_setup"
    /\ hub_data' = Stored(hub_data, EntryId, made)
    /\ pc' = "stored"
    /\ cmd' = ""
    /\ fired' = <<>>
    /\ UNCHANGED <<entry, stage, config, cbs, subs, n_pressed, n_passes>>
    /\ Did("store_hub", EntryId, <<>>, <<>>, <<>>, "none")
    /\ UNCHANGED <<entity_added, services, flowvars, regvars>>

\* async_setup_entry: async_forward_entry_setups(entry, ["event"]), which
\* runs event.async_setup_entry and, the entity added,
\* DoorbellEventEntity.async_added_to_hass
ForwardEventPlatform ==
    /\ pc = "stored"
    /\ cmd' = ""
    /\ fired' = <<>>
    /\ UNCHANGED <<hub_data, services, flowvars, regvars>>
    /\ IF EntryId \in DOMAIN hub_data
       THEN /\ RegisterBellCallback("_bell_pressed")
            /\ entity_added' = TRUE
            /\ pc' = "forwarded"
       ELSE /\ UNCHANGED <<entry, stage, config, cbs, subs, n_pressed,
                           n_passes, entity_added>>
            /\ Did("forward", EntryId, <<>>, <<>>, <<>>, "KeyError")
            /\ pc' = "failed"

\* handlers registered under the wrong names
HandlersSwapped ==
    [n \in {"ring", "open_gate", "close_gate", "stop_gate"} |->
        CASE n = "ring" -> "_handle_ring"
          [] n = "open_gate" -> "_handle_close_gate"
          [] n = "close_gate" -> "_handle_open_gate"
          [] n = "stop_gate" -> "_handle_stop_gate"]

\* DoorbellHub.register_services: the async_register calls
Handlers ==
    [n \in {"ring", "open_gate", "close_gate", "stop_gate"} |->
        CASE n = "ring" -> "_handle_ring"
          [] n = "open_gate" -> "_handle_open_gate"
          [] n = "close_gate" -> "_handle_close_gate"
          [] n = "stop_gate" -> "_handle_stop_gate"]

\* async_setup_entry: hub.register_services(); return True
RegisterServices ==
    /\ pc = "forwarded"
    /\ services' = Handlers
    /\ pc' = "done"
    /\ cmd' = ""
    /\ fired' = <<>>
    /\ UNCHANGED <<entry, stage, config, cbs, subs, n_pressed, n_passes>>
    /\ Did("register_services", "", <<>>, <<>>, <<>>, "none")
    /\ UNCHANGED <<hub_data, entity_added, flowvars, regvars>>

\* register_services._handle_ring, _handle_open_gate, _handle_close_gate,
\* _handle_stop_gate
Handle(handler) ==
    CASE handler = "_handle_ring" -> Ring
      [] handler = "_handle_open_gate" -> OpenGate
      [] handler = "_handle_close_gate" -> CloseGate
      [] handler = "_handle_stop_gate" -> StopGate

\* the names a caller may try in the doorbell domain
ServiceNames ==
    {"ring", "open_gate", "close_gate", "stop_gate", "lock_for_remote",
     "unlock_for_remote"}

\* hass.services.async_call(DOMAIN, name): the registered handler runs; a
\* name that is not registered reaches nothing of the hub
CallService(name) ==
    /\ cmd' = name
    /\ fired' = <<>>
    /\ UNCHANGED <<pc, hub_data, entity_added, services, flowvars, regvars>>
    /\ IF name \in DOMAIN services
       THEN Handle(services[name])
       ELSE /\ UNCHANGED <<entry, stage, config, cbs, subs, n_pressed,
                           n_passes>>
            /\ Did("call_service", name, <<>>, <<>>, <<>>, "ServiceNotFound")

RECURSIVE FiredBy(_)
\* the events the listeners of one pass fired
FiredBy(inv) ==
    IF inv = <<>> THEN <<>>
    ELSE (IF inv[1] = "_bell_pressed" THEN BellPressed.fired ELSE <<>>)
         \o FiredBy(Tail(inv))

\* a message on the subscribed topic, the event entity among the listeners
BusMessage(payload) ==
    /\ MessageReceived(payload)
    /\ fired' = FiredBy(invoked')
    /\ cmd' = ""
    /\ UNCHANGED <<pc, hub_data, entity_added, services, flowvars, regvars>>

\* the entry of the end-to-end scenario and its neighbours
EntryData ==
    { NoLockMapRec(S("doorbell"), S("cover.gate")),
      NoLockMapRec(Undef, None),
      NoLockMapRec(S("home"), S("cover.gate")) }

EntryOptions ==
    { Rec(Undef, Undef, Undef, Undef, Undef),
      Rec(Undef, Undef, Undef, Undef,
          Dict({<<S("lock.doorbell_front"), S("lock.real_front")>>})) }

EntryInit ==
    /\ \E d \in EntryData, o \in EntryOptions : HubInit(Entry(d, o))
    /\ HostInit
    /\ FlowInit
    /\ RegInit

EntryNext ==
    \/ SetupEntryHub
    \/ StoreHub
    \/ ForwardEventPlatform
    \/ RegisterServices
    \/ \E name \in ServiceNames : CallService(name)
    \/ \E payload \in Payloads : BusMessage(payload)

EntrySpec == EntryInit /\ [][EntryNext]_vars

-----------------------------------------------------------------------------
(* Several config entries: async_setup_entry and async_unload_entry of     *)
(* __init__.py, each running from await to await, the calls for different  *)
(* entries interleaved.  Home Assistant sets up an entry that is not       *)
(* loaded and unloads one that is.                                         *)

HostStep(op, e, exc) ==
    /\ UNCHANGED <<entry, stage, config, cbs, subs, n_pressed, n_passes>>
    /\ Did(op, e, <<>>, <<>>, <<>>, exc)
    /\ UNCHANGED <<pc, entity_added, cmd, fired, flowvars>>

\* async_setup_entry: hub = DoorbellHub(...); await hub.async_setup()
SetupEntryHubOf(e) ==
    /\ epc[e] \in {"idle", "failed"}
    /\ made < MaxHubs
    /\ made' = made + 1
    /\ \E ok \in BOOLEAN :
          /\ DidCall("setup", e, <<>>, <<>>, ok, "HomeAssistantError")
          /\ hub_local' = [hub_local EXCEPT ![e] = IF ok THEN made + 1 ELSE 0]
    /\ epc' = [epc EXCEPT ![e] = AfterSetup(raised')]
    /\ UNCHANGED <<entry, stage, config, cbs, subs, n_pressed, n_passes>>
    /\ UNCHANGED <<hostvars, flowvars, entity_hub, shut>>

\* async_setup_entry: hass.data[DOMAIN][entry.entry_id] = hub
StoreHubOf(e) ==
    /\ epc[e] = "hub_setup"
    /\ hub_data' = Stored(hub_data, e, hub_local[e])
    /\ epc' = [epc EXCEPT ![e] = "stored"]
    /\ HostStep("store_hub", e, "none")
    /\ UNCHANGED <<services, made, hub_local, entity_hub, shut>>

\* async_setup_entry: async_forward_entry_setups(entry, ["event"]);
\* event.async_setup_entry looks the hub up and hands it to the entity
ForwardEventPlatformOf(e) ==
    /\ epc[e] = "stored"
    /\ IF e \in DOMAIN hub_data
       THEN /\ entity_hub' = [entity_hub EXCEPT ![e] = hub_data[e]]
            /\ epc' = [epc EXCEPT ![e] = "forwarded"]
            /\ HostStep("forward", e, "none")
       ELSE /\ entity_hub' = entity_hub
            /\ epc' = [epc EXCEPT ![e] = "failed"]
            /\ HostStep("forward", e, "KeyError")
    /\ UNCHANGED <<hub_data, services, made, hub_local, shut>>

\* async_setup_entry: hub.register_services(); return True
RegisterServicesOf(e) ==
    /\ epc[e] = "forwarded"
    /\ services' = Handlers
    /\ epc' = [epc EXCEPT ![e] = "loaded"]
    /\ hub_local' = [hub_local EXCEPT ![e] = 0]
    /\ HostStep("register_services", e, "none")
    /\ UNCHANGED <<hub_data, made, entity_hub, shut>>

\* async_unload_entry: unload_ok = await async_unload_platforms(...); the
\* platform unloaded, the event entity is gone
UnloadPlatformsOf(e) ==
    /\ epc[e] = "loaded"
    /\ \E unload_ok \in BOOLEAN :
          /\ entity_hub' = [entity_hub EXCEPT
                               ![e] = IF unload_ok THEN 0 ELSE @]
          /\ epc' = [epc EXCEPT ![e] = IF unload_ok THEN "unloading"
                                        ELSE "unloading_failed"]
    /\ HostStep("unload_platforms", e, "none")
    /\ UNCHANGED <<hub_data, services, made, hub_local, shut>>

\* a pop that empties the registry
PoppedAll(data, entry_id) == [x \in {} |-> 0]

\* hass.data[DOMAIN].pop(entry.entry_id): what is left
Popped(data, entry_id) == [x \in DOMAIN data \ {entry_id} |-> data[x]]

\* async_unload_entry: hub = hass.data[DOMAIN].pop(entry.entry_id);
\* await hub.async_shutdown(); return unload_ok
PopHubOf(e) ==
    /\ epc[e] \in {"unloading", "unloading_failed"}
    /\ IF e \in DOMAIN hub_data
       THEN /\ hub_data' = Popped(hub_data, e)
            /\ shut' = [shut EXCEPT ![hub_data[e]] = @ + 1]
            /\ epc' = [epc EXCEPT ![e] = IF @ = "unloading" THEN "idle"
                                          ELSE "failed_unload"]
            /\ HostStep("unload_entry", e, "none")
       ELSE /\ UNCHANGED <<hub_data, shut>>
            /\ epc' = [epc EXCEPT ![e] = "failed_unload"]
            /\ HostStep("unload_entry", e, "KeyError")
    /\ UNCHANGED <<services, made, hub_local, entity_hub>>

RegistryInit ==
    /\ HubInit(Entry(NoLockMapRec(S("doorbell"), S("cover.gate")),
                     Rec(Undef, Undef, Undef, Undef, Undef)))
    /\ HostInit
    /\ FlowInit
    /\ RegInit

RegistryNext ==
    \/ \E e \in ConfigEntries : SetupEntryHubOf(e)
    \/ \E e \in ConfigEntries : StoreHubOf(e)
    \/ \E e \in ConfigEntries : ForwardEventPlatformOf(e)
    \/ \E e \in ConfigEntries : RegisterServicesOf(e)
    \/ \E e \in ConfigEntries : UnloadPlatformsOf(e)
    \/ \E e \in ConfigEntries : PopHubOf(e)

RegistrySpec == RegistryInit /\ [][RegistryNext]_vars

-----------------------------------------------------------------------------
(* The options flow: config_flow.py *)

\* the code points of the entity ids of the model
CodePoints(id) ==
    CASE id = "lock.a" -> <<108, 111, 99, 107, 46, 97>>
      [] id = "lock.ab" -> <<108, 111, 99, 107, 46, 97, 98>>
      [] id = "lock.b" -> <<108, 111, 99, 107, 46, 98>>
      [] id = "lock.c" -> <<108, 111, 99, 107, 46, 99>>
      [] id = "cover.a" -> <<99, 111, 118, 101, 114, 46, 97>>

RECURSIVE SeqLess(_, _)
\* a < b for two sequences of code points, as Python compares str
SeqLess(a, b) ==
    IF a = <<>> THEN b # <<>>
    ELSE IF b = <<>> THEN FALSE
    ELSE IF a[1] # b[1] THEN a[1] < b[1]
    ELSE SeqLess(Tail(a), Tail(b))

StrLess(x, y) == SeqLess(CodePoints(x), CodePoints(y))

\* the result returned in the order of the registry
SortedNot(result) == result

\* sorted(result)
Sorted(result) == SortSeq(result, StrLess)

RECURSIVE Collect(_, _, _, _)
\* the loop over ent_reg.entities.values()
Collect(reg, device_id, i, result) ==
    IF i > Len(reg) THEN result
    ELSE IF reg[i].device_id # device_id THEN Collect(reg, device_id, i + 1, result)
    ELSE IF reg[i].domain # "lock" THEN Collect(reg, device_id, i + 1, result)
    ELSE Collect(reg, device_id, i + 1, Append(result, reg[i].entity_id))

\* DoorbellOptionsFlowHandler._get_remote_lock_entities
GetRemoteLockEntities(reg, device_id) ==
    Sorted(Collect(reg, device_id, 1, <<>>))

\* existing_lock_map = raw.get(CONF_LOCK_MAP, {}) or {}
ExistingLockMap(raw) ==
    LET lm == Get(raw, CONF_LOCK_MAP, Dict({}))
    IN  IF Truthy(lm) THEN lm ELSE Dict({})

\* user_input.get(key) for a dynamic field
FieldGet(ui, key) ==
    IF \E f \in ui.fields : f[1] = key
    THEN (CHOOSE f \in ui.fields : f[1] = key)[2]
    ELSE None

\* lock_map[key] = value
Put(items, key, value) ==
    {p \in items : p[1] # S(key)} \cup {<<S(key), value>>}

\* a lock map that starts from the stored one
LockMapStartExisting(existing) == existing.items

\* lock_map: dict[str, str] = {}
LockMapStart(existing) == {}

RECURSIVE BuildLockMap(_, _, _, _)
\* for remote_entity_id in remote_locks: mapped = user_input.get(...);
\* if mapped: lock_map[remote_entity_id] = mapped
BuildLockMap(ui, remote_locks, i, lock_map) ==
    IF i > Len(remote_locks) THEN lock_map
    ELSE LET mapped == FieldGet(ui, remote_locks[i])
         IN  BuildLockMap(ui, remote_locks, i + 1,
                          IF Truthy(mapped)
                          THEN Put(lock_map, remote_locks[i], mapped)
                          ELSE lock_map)

\* new_options of a submitted form, the device id present
NewOptions(ui, raw, doorbell_device_id, remote_locks) ==
    Rec(Get(ui.base, CONF_BASE_TOPIC, Get(raw, CONF_BASE_TOPIC, None)),
        Get(ui.base, CONF_CLIENT_ID, Get(raw, CONF_CLIENT_ID, None)),
        Get(ui.base, CONF_DOORBELL_DEVICE_ID, doorbell_device_id),
        Get(ui.base, CONF_GATE_ENTITY, Get(raw, CONF_GATE_ENTITY, None)),
        Dict(BuildLockMap(ui, remote_locks, 1,
                          LockMapStart(ExistingLockMap(raw)))))

FlowRecord(step, device_id, remote_locks, raw, ui) ==
    [step |-> step, device_id |-> device_id, remote_locks |-> remote_locks,
     existing_lock_map |-> ExistingLockMap(raw).items, user_input |-> ui]

\* DoorbellOptionsFlowHandler.async_step_init; async_create_entry of an
\* options flow saves its data as the entry's options
OptionsInit(ui) ==
    LET raw == MergeRaw(entry)
        doorbell_device_id == Get(raw, CONF_DOORBELL_DEVICE_ID, None)
        remote_locks == GetRemoteLockEntities(registry, doorbell_device_id)
    IN  /\ IF ~Truthy(doorbell_device_id)
           THEN IF ui.given
                THEN /\ ui.fields = {}
                     /\ entry' = [entry EXCEPT !.options = ui.base]
                     /\ flow' = FlowRecord("fallback_submit",
                                           doorbell_device_id, <<>>, raw, ui)
                ELSE /\ entry' = entry
                     /\ flow' = FlowRecord("fallback_form",
                                           doorbell_device_id, <<>>, raw, ui)
           ELSE IF ui.given
                THEN /\ entry' = [entry EXCEPT !.options =
                                     NewOptions(ui, raw, doorbell_device_id,
                                                remote_locks)]
                     /\ flow' = FlowRecord("submit", doorbell_device_id,
                                           remote_locks, raw, ui)
                ELSE /\ entry' = entry
                     /\ flow' = FlowRecord("form", doorbell_device_id,
                                           remote_locks, raw, ui)
        /\ UNCHANGED <<stage, config, cbs, subs, n_pressed, n_passes>>
        /\ Did("options_init", "", <<>>, <<>>, <<>>, "none")
        /\ UNCHANGED <<registry, hostvars, regvars>>

\* an entity leaves the entity registry
RemoveEntity(i) ==
    /\ i \in 1..Len(registry)
    /\ registry' = SubSeq(registry, 1, i - 1)
                      \o SubSeq(registry, i + 1, Len(registry))
    /\ UNCHANGED <<entry, stage, config, cbs, subs, n_pressed, n_passes>>
    /\ Did("remove_entity", registry[i].entity_id, <<>>, <<>>, <<>>, "none")
    /\ UNCHANGED <<flow, hostvars, regvars>>

RegEntry(entity_id, device_id, domain) ==
    [entity_id |-> entity_id, device_id |-> device_id, domain |-> domain]

\* registries of five entities: three locks and a cover of the doorbell
\* device, one lock of another device
Registries ==
    { << RegEntry("lock.b", S("dev1"), "lock"),
         RegEntry("cover.a", S("dev1"), "cover"),
         RegEntry("lock.ab", S("dev1"), "lock"),
         RegEntry("lock.c", S("dev2"), "lock"),
         RegEntry("lock.a", S("dev1"), "lock") >>,
      << RegEntry("lock.a", S("dev1"), "lock"),
         RegEntry("lock.c", None, "lock"),
         RegEntry("lock.b", S("dev1"), "lock"),
         RegEntry("cover.a", S("dev2"), "cover") >> }

\* the base fields a form can be submitted with: client id and base topic
\* are required strings, the device a string, the gate optional
InputBases ==
    { Rec(S("home"), S("doorbell"), S("dev1"), S("cover.gate"), Undef),
      Rec(S("home"), S("doorbell"), S(""), Undef, Undef),
      Rec(S("home"), S("doorbell"), S("dev2"), Undef, Undef) }

\* the lock fields a form can be submitted with
InputFields ==
    { {},
      {<<"lock.a", S("lock.real_a")>>, <<"lock.b", S("")>>},
      {<<"lock.a", S("lock.real_a")>>, <<"lock.ab", S("lock.real_ab")>>,
       <<"lock.b", S("lock.real_b")>>},
      {<<"lock.c", S("lock.real_c")>>, <<"lock.b", S("lock.real_b")>>} }

UserInputs ==
    {NoInput} \cup
    {[given |-> TRUE, base |-> b, fields |-> f] :
        b \in InputBases, f \in InputFields}

\* entry data as async_step_user and async_step_import write it
FlowData ==
    { Rec(S("home"), S("doorbell"), S("dev1"), S("cover.gate"), Undef),
      Rec(S("home"), S("doorbell"), Undef, Undef,
          Dict({<<S("lock.a"), S("lock.real_a")>>})) }

FlowSpecInit ==
    /\ \A reg \in Registries : Len(reg) <= MaxRegistry
    /\ \E d \in FlowData :
          HubInit(Entry(d, Rec(Undef, Undef, Undef, Undef, Undef)))
    /\ HostInit
    /\ RegInit
    /\ registry \in Registries
    /\ flow = NoFlow

FlowNext ==
    \/ \E ui \in UserInputs : OptionsInit(ui)
    \/ \E i \in 1..MaxRegistry : RemoveEntity(i)

FlowSpec == FlowSpecInit /\ [][FlowNext]_vars

-----------------------------------------------------------------------------
(* The resolver on arbitrary persisted records: every shape entry.data and *)
(* entry.options can hold for the recognised keys.                         *)

LockKeys == {S("lock.doorbell_front"), S(""), I("3")}
LockVals == {S("lock.real_front"), S(""), None, I("7")}

\* the mappings of at most MaxPairs pairs; a dict holds a key once
LockDicts ==
    {Dict(ps) : ps \in {q \in SUBSET (LockKeys \X LockVals) :
                            /\ Cardinality(q) <= MaxPairs
                            /\ \A a, b \in q : a[1] = b[1] => a = b}}

NonMappings == {None, S(""), I("0"), S("abc"), I("5")}

ResolveData ==
    {Rec(bt, cid, S("dev1"), gate, lm) :
        bt \in {Undef, S("home")}, cid \in {Undef, S("doorbell")},
        gate \in {Undef, S("cover.gate")},
        lm \in {Undef} \cup NonMappings \cup LockDicts}

ResolveOptions ==
    {Rec(bt, cid, dev, gate, lm) :
        bt \in {Undef, S("attic"), S(""), None},
        cid \in {Undef, S("cid2")}, dev \in {Undef, None},
        gate \in {Undef, S("")},
        lm \in {Undef, None, I("5"),
                Dict({<<S("lock.doorbell_back"), S("lock.real_back")>>})}}

ResolveInit ==
    /\ \E d \in ResolveData, o \in ResolveOptions : HubInit(Entry(d, o))
    /\ HostInit
    /\ FlowInit
    /\ RegInit

ResolveSpec == ResolveInit /\ [][HubStep(Setup)]_vars

-----------------------------------------------------------------------------
(* Claims about the resolver *)

\* async_setup has returned from _parse_entry and assigned self.config
Resolved == last.op = "setup" /\ raised # "AttributeError"

\* what the merged records hold for a key: the override's value when the
\* override defines the key, else the base's
Effective(k) ==
    IF entry.options[k] # Undef THEN entry.options[k] ELSE entry.data[k]

\* the pairs of the lock map the resolver is given
RawPairs ==
    IF Effective(CONF_LOCK_MAP).t = "dict"
    THEN Effective(CONF_LOCK_MAP).items
    ELSE {}

ValidPairs == {p \in RawPairs : p[1].t = "str" /\ p[2].t = "str"}

\* C5 (as claimed): for every pair of records, whatever shapes their values
\* have, the resolver never raises.
C5_NeverRaises == last.op = "setup" => raised # "AttributeError"

\* C6 (as claimed): every recognised key resolves to the override's value if
\* the override defines it, else the base's, else the default ("doorbell" for
\* base_topic, absent for the others), and the resolved base_topic is always
\* a non-empty string.
C6_MergeAndNonEmptyTopic ==
    Resolved =>
        /\ config.base_topic =
              (IF Effective(CONF_BASE_TOPIC) = Undef
               THEN S("doorbell") ELSE Effective(CONF_BASE_TOPIC))
        /\ config.client_id =
              (IF Effective(CONF_CLIENT_ID) = Undef
               THEN None ELSE Effective(CONF_CLIENT_ID))
        /\ config.doorbell_device_id =
              (IF Effective(CONF_DOORBELL_DEVICE_ID) = Undef
               THEN None ELSE Effective(CONF_DOORBELL_DEVICE_ID))
        /\ config.gate_entity =
              (IF Effective(CONF_GATE_ENTITY) = Undef
               THEN None ELSE Effective(CONF_GATE_ENTITY))
        /\ config.base_topic.t = "str"
        /\ config.base_topic.v # ""

\* C7: a lock map with N pairs of two strings and M pairs with a non-string
\* key or value resolves to exactly the N valid pairs and none of the M.
C7_ExactlyValidPairs ==
    Resolved =>
        /\ Cardinality(DOMAIN config.lock_map) = Cardinality(ValidPairs)
        /\ \A p \in ValidPairs :
              /\ p[1].v \in DOMAIN config.lock_map
              /\ config.lock_map[p[1].v] = p[2].v
        /\ \A p \in RawPairs \ ValidPairs :
              p[1].t = "str" => p[1].v \notin DOMAIN config.lock_map

C7_Witness ==
    /\ Resolved
    /\ Cardinality(ValidPairs) = 1
    /\ Cardinality(RawPairs \ ValidPairs) = 1
    /\ Cardinality(DOMAIN config.lock_map) = 1

\* C8 (as claimed): every entry of the resolved lock map has a non-empty key
\* and a non-empty value.
C8_NoEmptyEntries ==
    Resolved =>
        \A k \in DOMAIN config.lock_map : k # "" /\ config.lock_map[k] # ""

\* C8 (amended): every entry of the resolved lock map is a pair of two
\* strings of the raw lock map, and a pair of two strings is kept also when
\* its key or its value is the empty string.
C8_StringPairsKeptAlsoEmpty ==
    Resolved =>
        /\ \A k \in DOMAIN config.lock_map :
              <<S(k), S(config.lock_map[k])>> \in RawPairs
        /\ \A p \in RawPairs :
              (p[1].t = "str" /\ p[2].t = "str" /\ (p[1].v = "" \/ p[2].v = ""))
                 => /\ p[1].v \in DOMAIN config.lock_map
                    /\ config.lock_map[p[1].v] = p[2].v

C8_Witness ==
    /\ Resolved
    /\ "" \in DOMAIN config.lock_map
    /\ \E k \in DOMAIN config.lock_map : k # "" /\ config.lock_map[k] = ""

-----------------------------------------------------------------------------
(* Claims about the hub *)

RECURSIVE Count(_, _)
Count(seq, x) ==
    IF seq = <<>> THEN 0
    ELSE (IF seq[1] = x THEN 1 ELSE 0) + Count(Tail(seq), x)

\* C1: one notify pass invokes every registered listener once per
\* registration, goes on past every listener that raises to all the later
\* ones, and lets no exception escape to the bus-message handler.
C1_PassInvokesAll ==
    [][ n_passes' = n_passes + 1 =>
          /\ raised' = "none"
          /\ Len(invoked') = Len(cbs)
          /\ \A cb \in Callbacks : Count(invoked', cb) = Count(cbs, cb)
          /\ \A i \in 1..Len(cbs) :
                cbs[i] = "cb_raise" =>
                   \A j \in (i + 1)..Len(cbs) : invoked'[j] = cbs[j] ]_vars

C1_Witness ==
    /\ last = [op |-> "message", arg |-> "pressed"]
    /\ invoked = <<"cb_ok", "cb_raise", "cb_reg">>
    /\ raised = "none"

\* C2: a message whose payload is exactly "pressed" triggers one notify
\* pass, any other payload none and no error; k pressed messages make k
\* passes.
C2_PressedOnly ==
    /\ n_passes = n_pressed
    /\ (last.op = "message" /\ last.arg # "pressed") =>
          (invoked = <<>> /\ raised = "none")

C2_Witness ==
    /\ last = [op |-> "message", arg |-> "Pressed"]
    /\ cbs # <<>>
    /\ n_pressed >= 2

GateOps == {"open_gate", "close_gate", "stop_gate"}

CoverAction(op) ==
    CASE op = "open_gate" -> "open_cover"
      [] op = "close_gate" -> "close_cover"
      [] op = "stop_gate" -> "stop_cover"

ExpectedGateCall ==
    [domain |-> "cover", service |-> CoverAction(last.op),
     entity_id |-> config.gate_entity, blocking |-> FALSE]

\* a value Python treats as false: None, "", 0
IsFalse(x) ==
    \/ x.t = "none"
    \/ (x.t = "str" /\ x.v = "")
    \/ (x.t = "int" /\ x.v = "0")

\* C3 (as claimed): a gate operation issues no actuator call when
\* config.gate_entity is absent, and otherwise exactly one non-blocking call
\* cover.<action> addressed to config.gate_entity.
C3_GateCallUnlessAbsent ==
    last.op \in GateOps =>
        IF config.gate_entity = None
        THEN calls = <<>>
        ELSE calls = <<ExpectedGateCall>>

\* C3 (amended): a gate operation issues no actuator call when
\* config.gate_entity is absent, empty or another false value, and otherwise
\* exactly one non-blocking call cover.<action> addressed to
\* config.gate_entity.
C3_GateCallUnlessFalse ==
    last.op \in GateOps =>
        IF IsFalse(config.gate_entity)
        THEN calls = <<>>
        ELSE calls = <<ExpectedGateCall>>

C3_Witness ==
    /\ last.op = "close_gate"
    /\ calls = <<[domain |-> "cover", service |-> "close_cover",
                  entity_id |-> S("cover.gate"), blocking |-> FALSE]>>

RemoteOps == {"lock_for_remote", "unlock_for_remote"}

ExpectedLockCall ==
    [domain |-> "lock",
     service |-> IF last.op = "lock_for_remote" THEN "lock" ELSE "unlock",
     entity_id |-> S(config.lock_map[last.arg]), blocking |-> FALSE]

\* C4 (as claimed): lock / unlock for a remote id issues exactly one
\* non-blocking lock / unlock call on lock_map[remote id] when the remote id
\* is a key of the lock map, and no call when it is not.
C4_LockCallIffKey ==
    last.op \in RemoteOps =>
        IF last.arg \in DOMAIN config.lock_map
        THEN calls = <<ExpectedLockCall>>
        ELSE calls = <<>>

\* C4 (amended): lock / unlock for a remote id issues exactly one
\* non-blocking lock / unlock call on lock_map[remote id] when the remote id
\* is a key of the lock map whose value is not empty, and no call when it is
\* not a key or is mapped to the empty string.
C4_LockCallIffMapped ==
    last.op \in RemoteOps =>
        IF last.arg \in DOMAIN config.lock_map /\ config.lock_map[last.arg] # ""
        THEN calls = <<ExpectedLockCall>>
        ELSE calls = <<>>

C4_Witness ==
    /\ last = [op |-> "unlock_for_remote", arg |-> "lock.doorbell_back"]
    /\ calls = <<[domain |-> "lock", service |-> "unlock",
                  entity_id |-> S("lock.real_back"), blocking |-> FALSE]>>

\* C9: ring() after setup publishes once, payload "ring" on
\* "<base_topic>/bell/cmd" with QoS 1 and retain false, invokes no listener
\* and issues no actuator call.
C9_RingPublishesOnce ==
    last.op = "ring" =>
        /\ pubs = <<[topic |-> Format(config.base_topic) \o "/bell/cmd",
                     payload |-> "ring", qos |-> 1, retain |-> FALSE]>>
        /\ invoked = <<>>
        /\ calls = <<>>

C9_Witness ==
    /\ last.op = "ring"
    /\ pubs = <<[topic |-> "home/bell/cmd", payload |-> "ring", qos |-> 1,
                 retain |-> FALSE]>>
    /\ cbs # <<>>

\* C11: registrations, duplicates included, extend the listener list at its
\* end, and every notify pass invokes the list as it stood when the pass
\* began, in that order: registration order, a listener registered k times
\* invoked k times.
C11_RegistrationOrder ==
    [][ /\ last'.op = "register" => cbs' = Append(cbs, last'.arg)
        /\ n_passes' = n_passes + 1 =>
              /\ invoked' = cbs
              /\ \A cb \in Callbacks : Count(invoked', cb) = Count(cbs, cb) ]_vars

C11_Witness ==
    /\ last = [op |-> "message", arg |-> "pressed"]
    /\ invoked = <<"cb_ok", "cb_raise", "cb_ok">>

RECURSIVE Repeat(_, _)
Repeat(x, n) == IF n = 0 THEN <<>> ELSE <<x>> \o Repeat(x, n - 1)

IsPrefix(a, b) == Len(a) <= Len(b) /\ a = SubSeq(b, 1, Len(a))

HubOps ==
    {"message", "register", "ring", "shutdown"} \cup GateOps \cup RemoteOps

\* C14: once setup has completed no hub operation changes config, the
\* listener list before an operation is a prefix of the list after it, and
\* the list grows only by register_bell_callback: by one call appending its
\* argument, or in a notify pass by the calls its registering listeners make.
C14_ConfigFixedListenersAppendOnly ==
    [][ (stage = "ready" /\ last'.op \in HubOps) =>
          /\ config' = config
          /\ IsPrefix(cbs, cbs')
          /\ cbs' # cbs =>
                \/ last'.op = "register" /\ cbs' = Append(cbs, last'.arg)
                \/ /\ last'.op = "message"
                   /\ cbs' = cbs \o Repeat("cb_ok", Count(cbs, "cb_reg")) ]_vars

C14_Witness ==
    /\ last.op = "shutdown"
    /\ Len(cbs) >= 2
    /\ n_passes >= 1
    /\ config = ParseEntry(entry)

\* C17: when the injected client raises in ring, a gate operation or a
\* lock / unlock for a remote, the operation has made exactly one attempt,
\* the client's exception is what the operation raises, and config and the
\* listener list are as before.
C17_FailurePropagatesOnce ==
    [][ (last'.op \in {"ring"} \cup GateOps \cup RemoteOps /\ fault' # "none") =>
          /\ raised' = fault'
          /\ Len(pubs') + Len(calls') = 1
          /\ config' = config
          /\ cbs' = cbs ]_vars

C17_Witness ==
    /\ last.op = "unlock_for_remote"
    /\ fault = "ServiceNotFound"
    /\ raised = "ServiceNotFound"
    /\ Len(calls) = 1
    /\ cbs # <<>>

\* C18: a notify pass runs over the listener list as it stood when the pass
\* began: it invokes exactly those listeners in order, the listeners
\* registered during the pass are at the end of the list afterwards without
\* having been invoked, and a later pass invokes them too.
C18_PassOverSnapshot ==
    [][ n_passes' = n_passes + 1 =>
          /\ Len(invoked') = Len(cbs)
          /\ invoked' = SubSeq(cbs', 1, Len(cbs))
          /\ cbs' = cbs \o Repeat("cb_ok", Count(cbs, "cb_reg")) ]_vars

C18_Witness ==
    /\ n_passes = 2
    /\ last = [op |-> "message", arg |-> "pressed"]
    /\ invoked = <<"cb_reg", "cb_ok">>
    /\ cbs = <<"cb_reg", "cb_ok", "cb_ok">>

\* the hub operation each command name stands for
OperationOf(name) ==
    CASE name = "ring" -> "ring"
      [] name = "open_gate" -> "open_gate"
      [] name = "close_gate" -> "close_gate"
      [] name = "stop_gate" -> "stop_gate"

\* C12: the commands registered are exactly ring, open_gate, close_gate and
\* stop_gate; a call of one of them runs exactly its hub operation, and no
\* command, registered or not, runs lock or unlock for a remote.
C12_CommandSurface ==
    /\ DOMAIN services \in {{}, {"ring", "open_gate", "close_gate", "stop_gate"}}
    /\ pc = "done" =>
          DOMAIN services = {"ring", "open_gate", "close_gate", "stop_gate"}
    /\ cmd \in DOMAIN services => last.op = OperationOf(cmd)
    /\ cmd # "" => last.op \notin RemoteOps

C12_Witness ==
    /\ cmd = "stop_gate"
    /\ last.op = "stop_gate"
    /\ calls = <<[domain |-> "cover", service |-> "stop_cover",
                  entity_id |-> S("cover.gate"), blocking |-> FALSE]>>

\* C15 (as claimed): async_setup_entry completed for base topic "doorbell"
\* and gate "cover.gate", a message "pressed" makes the event entity fire
\* exactly one event carrying a timestamp, and ring publishes "ring" to
\* doorbell/bell/cmd once.
C15_PressedFiresOneEvent ==
    (/\ pc = "done"
     /\ config.base_topic = S("doorbell")
     /\ config.gate_entity = S("cover.gate")) =>
        /\ last = [op |-> "message", arg |-> "pressed"] =>
              /\ Len(fired) = 1
              /\ TimestampPayload \in
                    {fired[1].event_type, fired[1].attributes}
        /\ last.op = "ring" =>
              pubs = <<[topic |-> "doorbell/bell/cmd", payload |-> "ring",
                        qos |-> 1, retain |-> FALSE]>>

\* C16: a subscription the bus refuses makes async_setup raise what the bus
\* raised; async_setup_entry ends there, with no hub in hass.data[DOMAIN],
\* the event platform not forwarded and no command registered.
C16_SetupFailureStopsEntry ==
    /\ (last.op = "setup" /\ fault # "none") =>
          (raised = fault /\ stage = "setup_failed")
    /\ stage = "setup_failed" =>
          /\ pc = "failed"
          /\ DOMAIN hub_data = {}
          /\ ~entity_added
          /\ cbs = <<>>
          /\ DOMAIN services = {}

C16_Witness ==
    /\ pc = "failed"
    /\ stage = "setup_failed"
    /\ last = [op |-> "call_service", arg |-> "ring"]
    /\ raised = "ServiceNotFound"
    /\ Len(subs) = 1

\* the lock entities of a device in the registry
Discovered(reg, device_id) ==
    {reg[i].entity_id :
        i \in {j \in 1..Len(reg) : /\ reg[j].device_id = device_id
                                   /\ reg[j].domain = "lock"}}

MainSteps == {"form", "submit"}

\* C13: the discovery returns each lock entity of the device once and
\* nothing else, in strictly ascending order of their ids; a second query
\* for the same device on the same registry returns the same sequence.
C13_DiscoverSortedLocks ==
    [][ (last'.op = "options_init" /\ flow'.step \in MainSteps) =>
          LET r == flow'.remote_locks
              d == Discovered(registry, flow'.device_id)
          IN  /\ {r[i] : i \in 1..Len(r)} = d
              /\ Len(r) = Cardinality(d)
              /\ \A i \in 1..(Len(r) - 1) : StrLess(r[i], r[i + 1])
              /\ (/\ last.op = "options_init"
                  /\ flow.step \in MainSteps
                  /\ flow.device_id = flow'.device_id) =>
                        flow'.remote_locks = flow.remote_locks ]_vars

C13_Witness ==
    /\ last.op = "options_init"
    /\ flow.remote_locks = <<"lock.a", "lock.ab", "lock.b">>
    /\ Len(registry) = 5
    /\ registry[1].entity_id = "lock.b"

\* C19 (as claimed): a form submitted on the fallback path leaves the lock
\* map resolved from the entry as it was.
C19_FallbackKeepsLockMap ==
    [][ (last'.op = "options_init" /\ flow'.step = "fallback_submit") =>
          ParseEntry(entry').lock_map = ParseEntry(entry).lock_map ]_vars

\* C20: a form submitted with the device id present saves as lock_map
\* exactly r -> user_input[r] for the locks r discovered now whose submitted
\* value is not empty; no other key, stored before or submitted, is in it.
C20_LockMapFromDiscovered ==
    (last.op = "options_init" /\ flow.step = "submit") =>
        LET d == Discovered(registry, flow.device_id)
            lm == entry.options[CONF_LOCK_MAP]
        IN  /\ lm = Dict({<<S(r), FieldGet(flow.user_input, r)>> :
                            r \in {x \in d :
                                     Truthy(FieldGet(flow.user_input, x))}})
            /\ \A p \in lm.items : p[1].v \in d /\ p[2].v # ""

C20_Witness ==
    /\ last.op = "options_init"
    /\ flow.step = "submit"
    /\ <<S("lock.b"), S("lock.real_b")>> \in flow.existing_lock_map
    /\ <<S("lock.a"), S("lock.real_a")>> \in flow.existing_lock_map
    /\ flow.remote_locks = <<"lock.a", "lock.ab">>
    /\ <<"lock.b", S("lock.real_b")>> \in flow.user_input.fields
    /\ entry.options[CONF_LOCK_MAP] = Dict({})

\* the positions of an entry at which its hub is in hass.data[DOMAIN]
HubHeld == {"stored", "forwarded", "loaded", "unloading", "unloading_failed"}

\* hass.data[DOMAIN] holds a hub for exactly the entries between the store
\* of their setup and the pop of their unload, a different hub for each;
\* a loaded entry's hub is the one its event entity holds and has not been
\* shut down; no lookup has failed
RegistryOK ==
    /\ \A e \in ConfigEntries : e \in DOMAIN hub_data <=> epc[e] \in HubHeld
    /\ \A e1, e2 \in DOMAIN hub_data :
          e1 # e2 => hub_data[e1] # hub_data[e2]
    /\ \A e \in ConfigEntries :
          epc[e] = "loaded" =>
             /\ hub_data[e] # 0
             /\ entity_hub[e] = hub_data[e]
             /\ shut[hub_data[e]] = 0
    /\ (\A e \in ConfigEntries : epc[e] \in {"idle", "loaded"}) =>
          DOMAIN hub_data = {e \in ConfigEntries : epc[e] = "loaded"}
    /\ raised # "KeyError"

\* C21: over any interleaving of setups and unloads of several entries the
\* hub registry holds one hub per loaded entry under its entry id; the
\* event platform finds the hub its setup stored; an unload removes the
\* hub of its entry only, shuts that hub down once and leaves the hubs of
\* the other entries where they are.
C21_OneHubPerLoadedEntry ==
    [][ /\ RegistryOK'
        /\ last'.op = "forward" =>
              /\ last'.arg \in DOMAIN hub_data
              /\ entity_hub'[last'.arg] = hub_data[last'.arg]
        /\ last'.op = "unload_entry" =>
              /\ DOMAIN hub_data' = DOMAIN hub_data \ {last'.arg}
              /\ \A x \in DOMAIN hub_data' : hub_data'[x] = hub_data[x]
              /\ shut' = [shut EXCEPT ![hub_data[last'.arg]] = @ + 1]
              /\ \A x \in ConfigEntries \ {last'.arg} :
                    entity_hub'[x] = entity_hub[x] ]_vars

C21_Witness ==
    /\ last = [op |-> "unload_entry", arg |-> "entry1"]
    /\ epc = [e \in ConfigEntries |->
                 IF e = "entry1" THEN "idle" ELSE "loaded"]
    /\ DOMAIN hub_data = {"entry2"}
    /\ entity_hub["entry2"] = hub_data["entry2"]
    /\ made = MaxHubs
    /\ \E h \in 1..MaxHubs : shut[h] = 1

\* C10 (as claimed): one call of setup builds config from the merged records
\* and then subscribes exactly once, to "<base_topic>/bell" of that config
\* at QoS 1, and to no other topic.
C10_SetupSubscribesOnce ==
    last.op = "setup" =>
        /\ HasConfig
        /\ subs = <<[topic |-> Format(config.base_topic) \o "/bell",
                     qos |-> 1]>>

=============================================================================
